---- MODULE Spec2Model ----
(***************************************************************************)
(* Bingo hybrid chatbot: the four-stage pipeline                           *)
(*   preprocess -> detectIntent -> routeIntent -> generateResponse         *)
(* A JavaScript string is a sequence of one-character strings, a           *)
(* confidence is the exact quotient [n, d] of two small naturals (the      *)
(* thresholds 0.4 and 0.7 are 4/10 and 7/10), and every function of the    *)
(* source is an operator that computes what the code computes.             *)
(***************************************************************************)
EXTENDS Integers, Sequences, FiniteSets, TLC

VARIABLES
    knowledgeBase,  \* the loaded knowledge.json: a list of intents
    SAFE_INTENTS,   \* intentRouter's module-level array
    pc,             \* where the current call stands
    rawMessage,     \* the value handed to preprocess / processMessage
    preprocessed,   \* result of preprocess: {original, processed} or a throw
    reprocessed,    \* result of preprocess applied to preprocessed.processed
    detection,      \* result of detectIntent
    routing,        \* result of routeIntent
    response,       \* the envelope generateResponse returns
    aiEnv,          \* what the AI provider does on the call of callAI
    aiResult,       \* what the awaited call of callAI settled to
    aiCalls,        \* calls of callAI made for the current message
    requests,       \* the locals of each processMessage run in flight
    legacyIntent,   \* result of the first-match detectIntent of server.js
    chat            \* the Chatbot component: its state and pending replies

vars == <<knowledgeBase, SAFE_INTENTS, pc, rawMessage, preprocessed,
          reprocessed, detection, routing, response,
          aiEnv, aiResult, aiCalls, requests, legacyIntent, chat>>

\* The variables of the legacy detector and of the chat window.
clientVars == <<legacyIntent, chat>>

\* The variables only a call of callAI, a concurrent run, the legacy
\* detector or the chat window touches.
collaboratorVars == <<aiEnv, aiResult, aiCalls, requests, legacyIntent, chat>>

\* A variable that holds nothing yet.
None == [kind |-> "none"]

\* No call of callAI made, no run in flight.
NoCollaborator ==
    /\ aiEnv = None
    /\ aiResult = None
    /\ aiCalls = 0
    /\ requests = None
    /\ legacyIntent = None
    /\ chat = None

--------------------------------------------------------------------------
(* Characters and strings *)

SPACE == " "
TAB == "\t"
Whitespace == {SPACE, TAB}
Chars == {"a", "A", SPACE, TAB}

MaxRawLen == 4

RECURSIVE StringsUpTo(_, _)
StringsUpTo(alphabet, n) ==
    IF n = 0 THEN {<<>>}
    ELSE LET shorter == StringsUpTo(alphabet, n - 1)
         IN shorter \cup {Append(s, c) : s \in {t \in shorter : Len(t) = n - 1}, c \in alphabet}

Str(kind, text) == [kind |-> kind, text |-> text]

\* The values preprocess is called with: every text over Chars up to
\* MaxRawLen, and one value of each non-text kind.  A "bare_object" is an
\* object without a usable toString/valueOf, e.g. Object.create(null) or the
\* JSON value {"toString": 1}.
RawInputs ==
    {Str("string", s) : s \in StringsUpTo(Chars, MaxRawLen)}
      \cup {Str("number", <<"7">>), Str("null", <<>>), Str("undefined", <<>>),
            Str("object", <<>>), Str("bare_object", <<>>)}

\* String.prototype.toLowerCase, character by character.
LowerChar(c) ==
    CASE c = "A" -> "a"
      [] c = "O" -> "o"
      [] OTHER -> c

toLowerCase(s) == [i \in 1..Len(s) |-> LowerChar(s[i])]

IsUpperCase(c) == LowerChar(c) # c

IsWhitespace(c) == c \in Whitespace

\* Normalized text: no upper-case letter, no whitespace at either end, and
\* no whitespace inside other than single spaces.
NoUpperCase(s) == \A i \in 1..Len(s) : ~IsUpperCase(s[i])

SingleSpaced(s) ==
    /\ s # <<>> => ~IsWhitespace(s[1]) /\ ~IsWhitespace(s[Len(s)])
    /\ \A i \in 1..Len(s) : IsWhitespace(s[i]) => s[i] = SPACE
    /\ \A i \in 1..(Len(s) - 1) : ~(IsWhitespace(s[i]) /\ IsWhitespace(s[i + 1]))

IsNormalized(text) == NoUpperCase(text) /\ SingleSpaced(text)

\* String.prototype.trim: strips whitespace from both ends.
RECURSIVE trimStart(_)
trimStart(s) ==
    IF s # <<>> /\ IsWhitespace(Head(s)) THEN trimStart(Tail(s)) ELSE s

RECURSIVE trimEnd(_)
trimEnd(s) ==
    IF s # <<>> /\ IsWhitespace(s[Len(s)]) THEN trimEnd(SubSeq(s, 1, Len(s) - 1)) ELSE s

\* A trim that strips blanks only: the slip of trimming ' ' instead of \s.
trimSpacesOnly(s) ==
    LET RECURSIVE front(_)
        front(t) == IF t # <<>> /\ Head(t) = SPACE THEN front(Tail(t)) ELSE t
        RECURSIVE back(_)
        back(t) == IF t # <<>> /\ t[Len(t)] = SPACE THEN back(SubSeq(t, 1, Len(t) - 1)) ELSE t
    IN back(front(s))

trim(s) == trimEnd(trimStart(s))

\* s.replace(/\s+/g, ' '): every maximal run of whitespace becomes one space.
RECURSIVE collapseWhitespace(_)
collapseWhitespace(s) ==
    IF s = <<>> THEN <<>>
    ELSE IF IsWhitespace(Head(s)) THEN <<SPACE>> \o collapseWhitespace(trimStart(s))
    ELSE <<Head(s)>> \o collapseWhitespace(Tail(s))

\* String(value): the text of a string, the usual renderings of the
\* primitives and of a plain object, and a TypeError for an object that
\* cannot be converted to a primitive.
StringOf(v) ==
    CASE v.kind = "string" -> [threw |-> FALSE, text |-> v.text]
      [] v.kind = "number" -> [threw |-> FALSE, text |-> v.text]
      [] v.kind = "null" -> [threw |-> FALSE, text |-> <<"n", "u", "l", "l">>]
      [] v.kind = "undefined" ->
            [threw |-> FALSE, text |-> <<"u", "n", "d", "e", "f", "i", "n", "e", "d">>]
      [] v.kind = "object" ->
            [threw |-> FALSE,
             text |-> <<"[", "o", "b", "j", "e", "c", "t", SPACE,
                        "O", "b", "j", "e", "c", "t", "]">>]
      [] OTHER -> [threw |-> TRUE, text |-> <<>>]

\* preprocess folding the case the wrong way (toUpperCase for toLowerCase).
preprocessUpperCases(raw) ==
    LET text == IF raw.kind # "string" THEN StringOf(raw)
                ELSE [threw |-> FALSE, text |-> raw.text]
        UpperChar(c) == CASE c = "a" -> "A" [] c = "o" -> "O" [] OTHER -> c
    IN IF text.threw
       THEN [threw |-> TRUE, original |-> <<>>, processed |-> <<>>]
       ELSE [threw |-> FALSE,
             original |-> text.text,
             processed |-> collapseWhitespace(trim([i \in 1..Len(text.text) |->
                                                      UpperChar(text.text[i])]))]

\* preprocess(rawMessage)
preprocess(raw) ==
    LET text == IF raw.kind # "string" THEN StringOf(raw)
                ELSE [threw |-> FALSE, text |-> raw.text]
    IN IF text.threw
       THEN [threw |-> TRUE, original |-> <<>>, processed |-> <<>>]
       ELSE [threw |-> FALSE,
             original |-> text.text,
             processed |-> collapseWhitespace(trim(toLowerCase(text.text)))]

--------------------------------------------------------------------------
(* preprocess as a function of its own: one call, then a second call on    *)
(* the first call's processed text.                                        *)

InitPreprocess ==
    /\ knowledgeBase = None
    /\ SAFE_INTENTS = <<>>
    /\ pc = "idle"
    /\ rawMessage = None
    /\ preprocessed = None
    /\ reprocessed = None
    /\ detection = None
    /\ routing = None
    /\ response = None
    /\ NoCollaborator

Preprocess(raw) ==
    /\ pc = "idle"
    /\ rawMessage' = raw
    /\ preprocessed' = preprocess(raw)
    /\ pc' = IF preprocessed'.threw THEN "threw" ELSE "preprocessed"
    /\ UNCHANGED collaboratorVars
    /\ UNCHANGED <<knowledgeBase, SAFE_INTENTS, reprocessed, detection, routing, response>>

PreprocessAgain ==
    /\ pc = "preprocessed"
    /\ reprocessed' = preprocess(Str("string", preprocessed.processed))
    /\ pc' = "reprocessed"
    /\ UNCHANGED collaboratorVars
    /\ UNCHANGED <<knowledgeBase, SAFE_INTENTS, rawMessage, preprocessed, detection,
                   routing, response>>

NextPreprocess ==
    \/ \E raw \in RawInputs : Preprocess(raw)
    \/ PreprocessAgain

SpecPreprocess == InitPreprocess /\ [][NextPreprocess]_vars

--------------------------------------------------------------------------
(* Confidence values: exact quotients n/d with d > 0.  A quotient of two    *)
(* small integers and a one-digit decimal compare in IEEE doubles exactly   *)
(* as they compare here.                                                    *)

Conf(n, d) == [n |-> n, d |-> d]
ConfGEq(a, b) == a.n * b.d >= b.n * a.d
ConfGt(a, b) == a.n * b.d > b.n * a.d
ConfEq(a, b) == a.n * b.d = b.n * a.d
ConfZero == Conf(0, 1)

--------------------------------------------------------------------------
(* intentRouter *)

SafeIntentsAtLoad ==
    <<"greeting", "bot_identity", "bot_purpose", "farewell", "help", "capabilities">>

CONFIDENCE_THRESHOLDS == [HIGH |-> Conf(7, 10), MEDIUM |-> Conf(4, 10), LOW |-> Conf(2, 10)]

Includes(seq, x) == \E i \in 1..Len(seq) : seq[i] = x

isSafeIntent(intent, safe) == Includes(safe, intent)

\* determineConfidenceLevel with the thresholds tested > instead of >=.
determineConfidenceLevelStrict(confidence) ==
    IF ConfGt(confidence, CONFIDENCE_THRESHOLDS.HIGH) THEN "high"
    ELSE IF ConfGt(confidence, CONFIDENCE_THRESHOLDS.MEDIUM) THEN "medium"
    ELSE "low"

\* determineConfidenceLevel(confidence)
determineConfidenceLevel(confidence) ==
    IF ConfGEq(confidence, CONFIDENCE_THRESHOLDS.HIGH) THEN "high"
    ELSE IF ConfGEq(confidence, CONFIDENCE_THRESHOLDS.MEDIUM) THEN "medium"
    ELSE "low"

\* !intent || intent === 'unknown'   ("" stands for every falsy intent)
IsUnknownIntent(intent) == intent = "" \/ intent = "unknown"

\* The routing decision without the scores of the other intents.
RoutingDecisionWithoutScores(d, safe, strategy, shouldUseAI, rule) ==
    [strategy |-> strategy,
     intent |-> d.intent,
     confidence |-> d.confidence,
     confidenceLevel |-> determineConfidenceLevel(d.confidence),
     isSafeIntent |-> isSafeIntent(d.intent, safe),
     shouldUseAI |-> shouldUseAI,
     matchedPatterns |-> d.matchedPatterns,
     allScores |-> [keys |-> <<>>, score |-> <<>>],
     detectionExplanation |-> d.explanation,
     routingExplanation |-> rule]

\* Step 3 of routeIntent: the decision returned
RoutingDecision(d, safe, strategy, shouldUseAI, rule) ==
    [strategy |-> strategy,
     intent |-> d.intent,
     confidence |-> d.confidence,
     confidenceLevel |-> determineConfidenceLevel(d.confidence),
     isSafeIntent |-> isSafeIntent(d.intent, safe),
     shouldUseAI |-> shouldUseAI,
     matchedPatterns |-> d.matchedPatterns,
     allScores |-> d.allScores,
     detectionExplanation |-> d.explanation,
     routingExplanation |-> rule]

\* routeIntent with the safe-intent rule gated on the confidence, as it is
\* for an escalation intent.
routeIntentSafeNeedsConfidence(d, safe) ==
    IF IsUnknownIntent(d.intent)
    THEN RoutingDecision(d, safe, "ai_fallback", TRUE, "unknown")
    ELSE IF ConfGEq(d.confidence, CONFIDENCE_THRESHOLDS.MEDIUM)
    THEN RoutingDecision(d, safe, "knowledge_base", FALSE, "sufficient")
    ELSE RoutingDecision(d, safe, "ai_fallback", TRUE, "low")

\* routeIntent with the escalation test written > instead of >=.
routeIntentStrictThreshold(d, safe) ==
    IF IsUnknownIntent(d.intent)
    THEN RoutingDecision(d, safe, "ai_fallback", TRUE, "unknown")
    ELSE IF isSafeIntent(d.intent, safe)
    THEN RoutingDecision(d, safe, "knowledge_base", FALSE, "safe")
    ELSE IF ConfGt(d.confidence, CONFIDENCE_THRESHOLDS.MEDIUM)
    THEN RoutingDecision(d, safe, "knowledge_base", FALSE, "sufficient")
    ELSE RoutingDecision(d, safe, "ai_fallback", TRUE, "low")

\* routeIntent without rule 1: an unknown intent falls through to the rules
\* for known intents and is answered from the knowledge base.
routeIntentNoUnknownRule(d, safe) ==
    IF isSafeIntent(d.intent, safe) \/ IsUnknownIntent(d.intent)
    THEN RoutingDecision(d, safe, "knowledge_base", FALSE, "safe")
    ELSE IF ConfGEq(d.confidence, CONFIDENCE_THRESHOLDS.MEDIUM)
    THEN RoutingDecision(d, safe, "knowledge_base", FALSE, "sufficient")
    ELSE RoutingDecision(d, safe, "ai_fallback", TRUE, "low")

\* routeIntent naming the strategy of rule 3 "fallback", as it once did.
routeIntentFallbackStrategy(d, safe) ==
    IF IsUnknownIntent(d.intent)
    THEN RoutingDecision(d, safe, "ai_fallback", TRUE, "unknown")
    ELSE IF isSafeIntent(d.intent, safe)
    THEN RoutingDecision(d, safe, "knowledge_base", FALSE, "safe")
    ELSE IF ConfGEq(d.confidence, CONFIDENCE_THRESHOLDS.MEDIUM)
    THEN RoutingDecision(d, safe, "knowledge_base", FALSE, "sufficient")
    ELSE RoutingDecision(d, safe, "fallback", TRUE, "low")

\* routeIntent asking for the AI whenever the confidence is low, the
\* strategy left as the rules set it.
routeIntentAIFlagOnLow(d, safe) ==
    IF IsUnknownIntent(d.intent)
    THEN RoutingDecision(d, safe, "ai_fallback", TRUE, "unknown")
    ELSE IF isSafeIntent(d.intent, safe)
    THEN RoutingDecision(d, safe, "knowledge_base",
                         ~ConfGEq(d.confidence, CONFIDENCE_THRESHOLDS.MEDIUM), "safe")
    ELSE IF ConfGEq(d.confidence, CONFIDENCE_THRESHOLDS.MEDIUM)
    THEN RoutingDecision(d, safe, "knowledge_base", FALSE, "sufficient")
    ELSE RoutingDecision(d, safe, "ai_fallback", TRUE, "low")

\* routeIntent(detectionResult), reading the module's SAFE_INTENTS array.
routeIntent(d, safe) ==
    IF IsUnknownIntent(d.intent)
    THEN RoutingDecision(d, safe, "ai_fallback", TRUE, "unknown")
    ELSE IF isSafeIntent(d.intent, safe)
    THEN RoutingDecision(d, safe, "knowledge_base", FALSE,
                         "safe_" \o determineConfidenceLevel(d.confidence))
    ELSE IF ConfGEq(d.confidence, CONFIDENCE_THRESHOLDS.MEDIUM)
    THEN RoutingDecision(d, safe, "knowledge_base", FALSE, "sufficient")
    ELSE RoutingDecision(d, safe, "ai_fallback", TRUE, "low")

\* addSafeIntent writing the intent over the last entry instead of pushing it.
addSafeIntentOverwriting(intent, safe) ==
    IF Includes(safe, intent) THEN safe ELSE [safe EXCEPT ![Len(safe)] = intent]

\* addSafeIntent(intent): the new array
addSafeIntent(intent, safe) ==
    IF ~Includes(safe, intent) THEN Append(safe, intent) ELSE safe

--------------------------------------------------------------------------
(* The router called on its own, with detection results of every intent    *)
(* and every confidence k/ConfidenceSteps, and addSafeIntent called with   *)
(* intent names.                                                           *)

ConfidenceSteps == 10

RouterIntents == {"greeting", "help", "weather", "7", "unknown", ""}

RouterConfidences == {Conf(k, ConfidenceSteps) : k \in 0..ConfidenceSteps}

NoScores == [keys |-> <<>>, score |-> <<>>]

RouterDetections ==
    {[intent |-> i, confidence |-> c, matchedPatterns |-> <<>>,
      allScores |-> NoScores, explanation |-> "manufactured"] :
        i \in RouterIntents, c \in RouterConfidences}

AddableIntents == {"greeting", "weather", "7"}

InitRoute ==
    /\ knowledgeBase = None
    /\ SAFE_INTENTS = SafeIntentsAtLoad
    /\ pc = "idle"
    /\ rawMessage = None
    /\ preprocessed = None
    /\ reprocessed = None
    /\ detection = None
    /\ routing = None
    /\ response = None
    /\ NoCollaborator

RouteIntent(d) ==
    /\ pc \in {"idle", "routed"}
    /\ detection' = d
    /\ routing' = routeIntent(d, SAFE_INTENTS)
    /\ pc' = "routed"
    /\ UNCHANGED collaboratorVars
    /\ UNCHANGED <<knowledgeBase, SAFE_INTENTS, rawMessage, preprocessed, reprocessed,
                   response>>

\* addSafeIntent between two calls of the router: the earlier decision has
\* been handed back and is no longer held.
AddSafeIntent(intent) ==
    /\ pc \in {"idle", "routed"}
    /\ SAFE_INTENTS' = addSafeIntent(intent, SAFE_INTENTS)
    /\ pc' = "idle"
    /\ detection' = None
    /\ routing' = None
    /\ UNCHANGED collaboratorVars
    /\ UNCHANGED <<knowledgeBase, rawMessage, preprocessed, reprocessed, response>>

NextRoute ==
    \/ \E d \in RouterDetections : RouteIntent(d)
    \/ \E intent \in AddableIntents : AddSafeIntent(intent)

SpecRoute == InitRoute /\ [][NextRoute]_vars

IsEscalationIntent(intent, safe) ==
    ~IsUnknownIntent(intent) /\ ~isSafeIntent(intent, safe)

\* C3: a known intent outside the safe set goes to knowledge_base exactly
\* when confidence >= 0.4 and to ai_fallback exactly when confidence < 0.4.
EscalationIntentByThreshold ==
    (pc = "routed" /\ IsEscalationIntent(detection.intent, SAFE_INTENTS)) =>
        /\ routing.strategy = "knowledge_base" <=> ConfGEq(detection.confidence, Conf(4, 10))
        /\ routing.strategy = "ai_fallback" <=> ~ConfGEq(detection.confidence, Conf(4, 10))
        /\ routing.shouldUseAI = (routing.strategy = "ai_fallback")

\* C3 witness: the boundary value 0.4 itself, answered from the knowledge base.
EscalationIntentByThresholdWitness ==
    /\ pc = "routed"
    /\ detection.intent = "weather"
    /\ ~isSafeIntent("weather", SAFE_INTENTS)
    /\ detection.confidence = Conf(4, 10)
    /\ routing.strategy = "knowledge_base"


--------------------------------------------------------------------------
(* intentDetector *)

\* message.includes(pattern) finding the pattern only where a word starts.
includesAtWordStart(message, pattern) ==
    \E i \in 0..(Len(message) - Len(pattern)) :
        /\ i = 0 \/ message[i] = SPACE
        /\ SubSeq(message, i + 1, i + Len(pattern)) = pattern

\* message.includes(pattern)
includes(message, pattern) ==
    \E i \in 0..(Len(message) - Len(pattern)) :
        SubSeq(message, i + 1, i + Len(pattern)) = pattern

\* The loop of scoreIntent over intent.patterns, from pattern k on:
\* matchedCount is Len of the result, matchedPatterns the result.
RECURSIVE MatchLoop(_, _, _)
MatchLoop(message, patterns, k) ==
    IF k > Len(patterns) THEN <<>>
    ELSE IF includes(message, patterns[k])
         THEN <<patterns[k]>> \o MatchLoop(message, patterns, k + 1)
         ELSE MatchLoop(message, patterns, k + 1)

\* scoreIntent dividing without the totalPatterns > 0 test: 0/0 is NaN,
\* kept here as the quotient with denominator 0.
scoreIntentUnguarded(message, intent) ==
    LET matchedPatterns == MatchLoop(message, intent.patterns, 1)
    IN [confidence |-> Conf(Len(matchedPatterns), Len(intent.patterns)),
        matchedPatterns |-> matchedPatterns]

\* scoreIntent(message, intent)
scoreIntent(message, intent) ==
    LET matchedPatterns == MatchLoop(message, intent.patterns, 1)
        matchedCount == Len(matchedPatterns)
        totalPatterns == Len(intent.patterns)
    IN [confidence |-> IF totalPatterns > 0 THEN Conf(matchedCount, totalPatterns)
                       ELSE ConfZero,
        matchedPatterns |-> matchedPatterns]

\* Property keys that are array indices ("7") enumerate before all other
\* keys, in ascending numeric order; the other keys enumerate in the order
\* they were created.  Of the intent names used here only "7" is an index.
IsArrayIndex(name) == name = "7"
ArrayIndexValue(name) == CASE name = "7" -> 7 [] OTHER -> -1

\* Where a new key lands in the enumeration order of an object.
KeyPosition(keys, name) ==
    IF IsArrayIndex(name)
    THEN 1 + Cardinality({i \in 1..Len(keys) :
                 IsArrayIndex(keys[i]) /\ ArrayIndexValue(keys[i]) < ArrayIndexValue(name)})
    ELSE Len(keys) + 1

InsertAt(seq, pos, x) == SubSeq(seq, 1, pos - 1) \o <<x>> \o SubSeq(seq, pos, Len(seq))

\* obj[name] = value on an object kept as its keys in enumeration order and
\* the value of each key.
SetProperty(obj, name, value) ==
    [keys |-> IF Includes(obj.keys, name) THEN obj.keys
              ELSE InsertAt(obj.keys, KeyPosition(obj.keys, name), name),
     score |-> [k \in (DOMAIN obj.score) \cup {name} |->
                   IF k = name THEN value ELSE obj.score[k]]]

EmptyObject == [keys |-> <<>>, score |-> [k \in {} |-> ConfZero]]

\* null, and every other falsy intent value
NoIntent == ""

\* The loop of findBestIntent over the keys of scores, from key k on.
RECURSIVE BestLoop(_, _, _, _)
BestLoop(scores, k, highestScore, bestIntent) ==
    IF k > Len(scores.keys) THEN bestIntent
    ELSE LET intentName == scores.keys[k]
             score == scores.score[intentName]
         IN IF ConfGt(score, highestScore)
            THEN BestLoop(scores, k + 1, score, intentName)
            ELSE BestLoop(scores, k + 1, highestScore, bestIntent)

\* The same loop with >= for >: a later intent of equal score replaces the
\* earlier one, and a score of 0 is taken for a match.
RECURSIVE BestLoopNotStrict(_, _, _, _)
BestLoopNotStrict(scores, k, highestScore, bestIntent) ==
    IF k > Len(scores.keys) THEN bestIntent
    ELSE LET intentName == scores.keys[k]
             score == scores.score[intentName]
         IN IF ConfGEq(score, highestScore)
            THEN BestLoopNotStrict(scores, k + 1, score, intentName)
            ELSE BestLoopNotStrict(scores, k + 1, highestScore, bestIntent)

findBestIntentNotStrict(scores) == BestLoopNotStrict(scores, 1, ConfZero, NoIntent)

\* findBestIntent with highestScore starting below every score.
findBestIntentFromBelowZero(scores) == BestLoop(scores, 1, Conf(0 - 1, 1), NoIntent)

\* findBestIntent(scores)
findBestIntent(scores) == BestLoop(scores, 1, ConfZero, NoIntent)

\* Steps 1-2 of detectIntent: allScores and allMatches after the first k
\* intents of the knowledge base.
RECURSIVE ScoreAll(_, _, _)
ScoreAll(message, kb, k) ==
    IF k = 0 THEN [allScores |-> EmptyObject, allMatches |-> [n \in {} |-> <<>>]]
    ELSE LET before == ScoreAll(message, kb, k - 1)
             intentName == kb.intents[k].intent
             result == scoreIntent(message, kb.intents[k])
         IN [allScores |-> SetProperty(before.allScores, intentName, result.confidence),
             allMatches |-> [n \in (DOMAIN before.allMatches) \cup {intentName} |->
                                IF n = intentName THEN result.matchedPatterns
                                ELSE before.allMatches[n]]]

\* detectIntent(processedMessage, knowledgeBase)
detectIntent(processedMessage, kb) ==
    LET all == ScoreAll(processedMessage, kb, Len(kb.intents))
        bestIntent == findBestIntent(all.allScores)
        bestConfidence == IF bestIntent \in DOMAIN all.allScores.score
                          THEN all.allScores.score[bestIntent] ELSE ConfZero
        bestMatches == IF bestIntent \in DOMAIN all.allMatches
                       THEN all.allMatches[bestIntent] ELSE <<>>
    IN [intent |-> IF bestIntent # NoIntent THEN bestIntent ELSE "unknown",
        confidence |-> bestConfidence,
        matchedPatterns |-> bestMatches,
        allScores |-> all.allScores,
        explanation |-> IF ConfGt(bestConfidence, ConfZero) THEN "Matched patterns"
                        ELSE "No patterns matched"]


--------------------------------------------------------------------------
(* server.js: the first-match detectIntent of the first version *)

Null == [kind |-> "null"]

\* The loops of the legacy detectIntent testing only the first pattern of
\* every intent.
RECURSIVE LegacyLoopFirstPattern(_, _, _)
LegacyLoopFirstPattern(message, knowledge, k) ==
    IF k > Len(knowledge.intents) THEN Null
    ELSE IF Len(knowledge.intents[k].patterns) > 0
            /\ includes(message, knowledge.intents[k].patterns[1])
    THEN knowledge.intents[k]
    ELSE LegacyLoopFirstPattern(message, knowledge, k + 1)

legacyDetectIntentFirstPattern(message, knowledge) ==
    LegacyLoopFirstPattern(message, knowledge, 1)

\* The loops of the legacy detectIntent, from intent k on: the first intent
\* one of whose patterns the message includes.
RECURSIVE LegacyLoop(_, _, _)
LegacyLoop(message, knowledge, k) ==
    IF k > Len(knowledge.intents) THEN Null
    ELSE IF \E j \in 1..Len(knowledge.intents[k].patterns) :
                includes(message, knowledge.intents[k].patterns[j])
    THEN knowledge.intents[k]
    ELSE LegacyLoop(message, knowledge, k + 1)

\* detectIntent(message, knowledge) of server.js
legacyDetectIntent(message, knowledge) == LegacyLoop(message, knowledge, 1)

--------------------------------------------------------------------------
(* Knowledge bases *)

\* The canned replies of an intent: r texts that name the intent.
CannedResponses(name, r) == [i \in 1..r |-> name \o " reply " \o ToString(i)]

IntentRecords(names, patternLists, responseCounts) ==
    {[intent |-> n, patterns |-> p, responses |-> CannedResponses(n, r)] :
        n \in names, p \in patternLists, r \in responseCounts}

\* Intents written without a responses property.
IntentRecordsWithoutResponses(names, patternLists) ==
    {[intent |-> n, patterns |-> p] : n \in names, p \in patternLists}

\* Every knowledge base of at most two intents of the given records, with
\* unique intent names (the invariant knowledge.json is written to).
KnowledgeBasesOf(records) ==
    {[intents |-> <<>>]}
      \cup {[intents |-> <<x>>] : x \in records}
      \cup {[intents |-> <<p[1], p[2]>>] :
                p \in {q \in records \X records : q[1].intent # q[2].intent}}

\* What the detector's result is measured against: the number of patterns
\* of the intent that occur in the message, counted pattern by pattern.
MatchCount(message, intent) ==
    Cardinality({j \in 1..Len(intent.patterns) : includes(message, intent.patterns[j])})

--------------------------------------------------------------------------
(* detectIntent called on its own: a knowledge base of up to two intents    *)
(* named from DetectNames, each with up to MaxPatterns patterns, and every  *)
(* text over DetectChars up to MaxMsgLen as the processed message.          *)

MaxPatterns == 2
MaxMsgLen == 3

DetectChars == {"a", "b"}
DetectNames == {"greeting", "weather", "7"}
DetectPatterns == {<<"a">>, <<"b">>, <<"a", "b">>}

DetectKnowledgeBases ==
    KnowledgeBasesOf(IntentRecords(DetectNames, StringsUpTo(DetectPatterns, MaxPatterns), {1}))

InitDetect ==
    /\ knowledgeBase \in DetectKnowledgeBases
    /\ SAFE_INTENTS = SafeIntentsAtLoad
    /\ pc = "idle"
    /\ rawMessage = None
    /\ preprocessed = None
    /\ reprocessed = None
    /\ detection = None
    /\ routing = None
    /\ response = None
    /\ NoCollaborator

\* detectIntent(message, knowledgeBase); rawMessage keeps the text passed.
DetectIntent(message) ==
    /\ pc = "idle"
    /\ rawMessage' = Str("string", message)
    /\ detection' = detectIntent(message, knowledgeBase)
    /\ pc' = "detected"
    /\ UNCHANGED collaboratorVars
    /\ UNCHANGED <<knowledgeBase, SAFE_INTENTS, preprocessed, reprocessed, routing, response>>

\* The legacy detectIntent called on the same message and knowledge base
LegacyDetectIntent ==
    /\ pc = "detected"
    /\ legacyIntent' = legacyDetectIntent(rawMessage.text, knowledgeBase)
    /\ pc' = "compared"
    /\ UNCHANGED <<knowledgeBase, SAFE_INTENTS, rawMessage, preprocessed, reprocessed,
                   detection, routing, response, aiEnv, aiResult, aiCalls, requests, chat>>

NextDetect ==
    \/ \E message \in StringsUpTo(DetectChars, MaxMsgLen) : DetectIntent(message)
    \/ LegacyDetectIntent

SpecDetect == InitDetect /\ [][NextDetect]_vars

Intents == knowledgeBase.intents

\* The confidence of the k-th intent for the message: matches over patterns.
RatioOf(message, intent) ==
    IF Len(intent.patterns) > 0 THEN Conf(MatchCount(message, intent), Len(intent.patterns))
    ELSE ConfZero

\* The first intent, in knowledge-base order, whose ratio no intent exceeds.
FirstMaximal(message, kb) ==
    CHOOSE k \in 1..Len(kb.intents) :
        /\ \A j \in 1..Len(kb.intents) :
              ConfGEq(RatioOf(message, kb.intents[k]), RatioOf(message, kb.intents[j]))
        /\ \A j \in 1..(k - 1) :
              ConfGt(RatioOf(message, kb.intents[k]), RatioOf(message, kb.intents[j]))

SomeIntentMatches(message, kb) ==
    \E k \in 1..Len(kb.intents) : MatchCount(message, kb.intents[k]) > 0

\* C4: detectIntent selects the intent of maximal confidence and, among
\* intents sharing the maximal non-zero confidence, the first one of the
\* knowledge base's intent list, whatever the (unique) intent names are.
SelectsFirstMaximalIntent ==
    (pc = "detected" /\ SomeIntentMatches(rawMessage.text, knowledgeBase)) =>
        LET k == FirstMaximal(rawMessage.text, knowledgeBase)
        IN /\ detection.intent = Intents[k].intent
           /\ ConfEq(detection.confidence, RatioOf(rawMessage.text, Intents[k]))

\* C4 restricted to knowledge bases none of whose intent names is an array
\* index: what the code does implement.
SelectsFirstMaximalIntentPlainNames ==
    (pc = "detected" /\ SomeIntentMatches(rawMessage.text, knowledgeBase)
       /\ \A k \in 1..Len(Intents) : ~IsArrayIndex(Intents[k].intent)) =>
        LET k == FirstMaximal(rawMessage.text, knowledgeBase)
        IN /\ detection.intent = Intents[k].intent
           /\ ConfEq(detection.confidence, RatioOf(rawMessage.text, Intents[k]))

\* C5: when every intent scores 0 (an empty knowledge base included) the
\* result is intent "unknown", confidence 0 and no matched pattern.
NoMatchIsUnknown ==
    (pc = "detected" /\ ~SomeIntentMatches(rawMessage.text, knowledgeBase)) =>
        /\ detection.intent = "unknown"
        /\ detection.confidence = ConfZero
        /\ detection.matchedPatterns = <<>>

\* C5 witness: two intents with patterns, none occurring in a non-empty message.
NoMatchIsUnknownWitness ==
    /\ pc = "detected"
    /\ Len(Intents) = 2
    /\ \A k \in 1..2 : Len(Intents[k].patterns) > 0
    /\ Len(rawMessage.text) > 0
    /\ ~SomeIntentMatches(rawMessage.text, knowledgeBase)
    /\ detection.intent = "unknown"

\* C6: every intent's confidence is (patterns occurring in the message) /
\* (patterns of the intent), a number in [0,1], and is 0, with no division,
\* for an intent without patterns.
ConfidenceIsPatternRatio ==
    pc = "detected" =>
        \A k \in 1..Len(Intents) :
            LET c == detection.allScores.score[Intents[k].intent]
                total == Len(Intents[k].patterns)
            IN /\ c.d > 0
               /\ ConfGEq(c, ConfZero) /\ ConfGEq(Conf(1, 1), c)
               /\ total > 0 => ConfEq(c, Conf(MatchCount(rawMessage.text, Intents[k]), total))
               /\ total = 0 => c = ConfZero

\* C6 witness: one intent without patterns beside one matched in part.
ConfidenceIsPatternRatioWitness ==
    /\ pc = "detected"
    /\ Len(Intents) = 2
    /\ Len(Intents[1].patterns) = 0
    /\ Len(Intents[2].patterns) = 2
    /\ MatchCount(rawMessage.text, Intents[2]) = 1
    /\ detection.allScores.score[Intents[1].intent] = ConfZero
    /\ detection.allScores.score[Intents[2].intent] = Conf(1, 2)


--------------------------------------------------------------------------
(* responseGenerator *)

\* responses[i] for an index outside the array, and every other value that
\* is not a string.
Undefined == "<undefined>"

\* findIntentInKnowledgeBase(intentName, knowledgeBase): the position of the
\* first intent of that name, 0 for null.
findIntentInKnowledgeBase(intentName, kb) ==
    IF intentName = NoIntent \/ ~\E k \in 1..Len(kb.intents) : kb.intents[k].intent = intentName
    THEN 0
    ELSE CHOOSE k \in 1..Len(kb.intents) :
            /\ kb.intents[k].intent = intentName
            /\ \A j \in 1..(k - 1) : kb.intents[j].intent # intentName

\* Math.random() is rnd / RandomSteps for rnd in 0..RandomSteps-1, so
\* Math.floor(Math.random() * length) is (rnd * length) \div RandomSteps.
RandomSteps == 4

RandomValues == 0..(RandomSteps - 1)

ElementAt(arr, index) == IF index + 1 \in 1..Len(arr) THEN arr[index + 1] ELSE Undefined

\* selectRandomResponse rounding to the nearest index instead of down.
selectRandomResponseRounded(responses, rnd) ==
    IF Len(responses) = 0 THEN "I'm not sure how to respond. "
    ELSE ElementAt(responses, (2 * rnd * Len(responses) + RandomSteps) \div (2 * RandomSteps))

\* selectRandomResponse(responses)
selectRandomResponse(responses, rnd) ==
    IF Len(responses) = 0 THEN "I'm not sure how to respond. "
    ELSE ElementAt(responses, (rnd * Len(responses)) \div RandomSteps)

\* The text of a sequence of characters, as the string a message carries.
RECURSIVE Text(_)
Text(s) == IF s = <<>> THEN "" ELSE s[1] \o Text(Tail(s))

\* Math.round(confidence * 100)
ConfidencePercent(c) == (200 * c.n + c.d) \div (2 * c.d)

\* matchedPatterns.join(', ')
RECURSIVE JoinPatterns(_)
JoinPatterns(patterns) ==
    IF Len(patterns) = 0 THEN ""
    ELSE IF Len(patterns) = 1 THEN Text(patterns[1])
    ELSE Text(patterns[1]) \o ", " \o JoinPatterns(Tail(patterns))

\* Part 1 of the message: the detection
DetectionPart(r) ==
    IF ~IsUnknownIntent(r.intent)
    THEN "Detected intent '" \o r.intent \o "'"
           \o (IF Len(r.matchedPatterns) > 0
               THEN " (matched:  " \o JoinPatterns(r.matchedPatterns) \o ")"
               ELSE "")
           \o ". "
    ELSE "No specific intent detected. "

\* Part 2 of the message: the confidence
ConfidencePart(r) ==
    "Confidence: " \o ToString(ConfidencePercent(r.confidence)) \o "% ("
        \o r.confidenceLevel \o ")"

\* Part 3 of the message: the note on a safe intent, and the full stop
SafeIntentPart(r) ==
    (IF r.isSafeIntent /\ r.confidenceLevel = "low"
     THEN " - safe intent, answered with rules regardless of low confidence"
     ELSE "") \o ". "

\* Part 4 of the message: the response source
SourcePart(responseSource) ==
    CASE responseSource = "knowledge_base" ->
            "Using rule-based response from knowledge base. "
      [] responseSource = "ai" ->
            "Using AI-generated response (intent unknown or low confidence)."
      [] responseSource = "ai_error_fallback" ->
            "AI service unavailable - using fallback response."
      [] responseSource = "error_fallback" ->
            "Using fallback response due to error."
      [] OTHER -> "Response source: " \o responseSource \o ". "

\* buildExplainabilityMessage naming the source after the routed strategy
\* instead of the source the reply came from.
buildExplainabilityMessageByStrategy(r, responseSource) ==
    DetectionPart(r) \o ConfidencePart(r) \o SafeIntentPart(r)
        \o SourcePart(IF r.strategy = "ai_fallback" THEN "ai" ELSE r.strategy)

\* buildExplainabilityMessage(data)
buildExplainabilityMessage(r, responseSource) ==
    DetectionPart(r) \o ConfidencePart(r) \o SafeIntentPart(r) \o SourcePart(responseSource)

NoMetadata == [kind |-> "absent"]

\* Steps 4-7 of generateResponse: the envelope, or the TypeError of
\* reply.substring when reply is not a string.
Package(r, reply, responseSource, aiMetadata) ==
    IF reply = Undefined
    THEN [threw |-> TRUE, error |-> "TypeError"]
    ELSE [threw |-> FALSE,
          reply |-> reply,
          intent |-> r.intent,
          confidence |-> r.confidence,
          confidenceLevel |-> r.confidenceLevel,
          explainability |-> buildExplainabilityMessage(r, responseSource),
          matchedPatterns |-> r.matchedPatterns,
          metadata |-> [strategy |-> r.strategy,
                        responseSource |-> responseSource,
                        shouldUseAI |-> r.shouldUseAI,
                        isSafeIntent |-> r.isSafeIntent,
                        allScores |-> r.allScores,
                        ai |-> aiMetadata]]

\* intentData.responses && intentData.responses.length > 0, without the
\* test of the length.
HasResponsesProperty(intentData) == "responses" \in DOMAIN intentData

\* intentData.responses && intentData.responses.length > 0
HasResponses(intentData) ==
    "responses" \in DOMAIN intentData /\ Len(intentData.responses) > 0

\* The responses handed to selectRandomResponse.
ResponsesOf(intentData) ==
    IF "responses" \in DOMAIN intentData THEN intentData.responses ELSE <<>>

\* generateResponse, strategy knowledge_base
GenerateFromKnowledgeBase(r, kb, rnd) ==
    LET k == findIntentInKnowledgeBase(r.intent, kb)
    IN IF k # 0 /\ HasResponses(kb.intents[k])
       THEN Package(r, selectRandomResponse(ResponsesOf(kb.intents[k]), rnd),
                    "knowledge_base", NoMetadata)
       ELSE Package(r, "I understand what you're asking, but I don't have a response prepared for that yet. ",
                    "error_fallback", NoMetadata)

--------------------------------------------------------------------------
(* aiService: callAI, the Hugging Face router version the response         *)
(* generator requires, and the Gemini version kept in server.js            *)

MODEL_ID == "meta-llama/Meta-Llama-3-8B-Instruct"

\* What the provider does on one call: the API key of the environment,
\* whether the request settles, the HTTP status and error text, the shape
\* of the body and the generated content.
Provider(apiKey, fetch, status, errorText, body, content) ==
    [apiKey |-> apiKey, fetch |-> fetch, status |-> status,
     errorText |-> errorText, body |-> body, content |-> content]

ProviderBehaviours(contents) ==
    {Provider(apiKey, fetch, status, errorText, body, content) :
        apiKey \in {"missing", "placeholder", "configured"},
        fetch \in {"rejects", "responds"},
        status \in {200, 503, 500},
        errorText \in {"loading", "other"},
        body \in {"not_json", "no_choices", "no_content", "content"},
        content \in contents}

\* createErrorResponse(errorMessage, startTime)
createErrorResponse(errorMessage) ==
    [kind |-> "returned",
     success |-> FALSE,
     reply |-> "I'm having trouble connecting to my AI brain right now. Please try again.",
     source |-> "error_fallback",
     metadata |-> [kind |-> "metadata", provider |-> "huggingface", finishReason |-> "ERROR"],
     error |-> errorMessage]

\* callAI(userMessage, context) with the provider behaving as env
callAI(userMessage, context, env) ==
    IF env.apiKey \in {"missing", "placeholder"}
    THEN createErrorResponse("API key not configured")
    ELSE IF env.fetch = "rejects"
    THEN createErrorResponse("fetch failed")
    ELSE IF env.status # 200
    THEN IF env.status = 503 \/ env.errorText = "loading"
         THEN createErrorResponse("Model is warming up, please try again shortly.")
         ELSE createErrorResponse("API Error " \o ToString(env.status) \o ": " \o env.errorText)
    ELSE IF env.body = "not_json"
    THEN createErrorResponse("Unexpected token in JSON")
    ELSE IF env.body = "no_choices"
    THEN createErrorResponse("Invalid response format")
    ELSE IF env.body = "no_content"
    THEN createErrorResponse("Cannot read properties of undefined (reading 'trim')")
    ELSE [kind |-> "returned",
          success |-> TRUE,
          reply |-> Text(trim(env.content)),
          source |-> "ai",
          metadata |-> [kind |-> "metadata", model |-> MODEL_ID, provider |-> "huggingface"],
          error |-> "null"]

MODEL_CONFIG == [model |-> "gemini-pro"]

\* createErrorResponse(errorMessage, startTime) of the Gemini version
createErrorResponseGemini(errorMessage) ==
    [kind |-> "returned",
     success |-> FALSE,
     reply |-> "I'm having trouble connecting to my AI assistant right now. Could you try rephrasing your question, or ask something else? ",
     source |-> "error_fallback",
     metadata |-> [kind |-> "metadata", model |-> "null", finishReason |-> "ERROR"],
     error |-> errorMessage]

\* callAI(userMessage, context) of the Gemini version: generateContent
\* rejects when the request fails or the status is an error, and
\* response.text() is the content, empty when the body holds none.
callAIGemini(userMessage, context, env) ==
    IF env.apiKey = "missing"
    THEN createErrorResponseGemini("API key not configured")
    ELSE IF userMessage.kind # "string" \/ trim(userMessage.text) = <<>>
    THEN createErrorResponseGemini("Invalid user message")
    ELSE IF env.fetch = "rejects"
    THEN createErrorResponseGemini("fetch failed")
    ELSE IF env.status # 200 \/ env.body = "not_json"
    THEN createErrorResponseGemini("API Error " \o ToString(env.status) \o ": " \o env.errorText)
    ELSE IF env.body \in {"no_choices", "no_content"} \/ trim(env.content) = <<>>
    THEN createErrorResponseGemini("Empty response from AI")
    ELSE [kind |-> "returned",
          success |-> TRUE,
          reply |-> Text(trim(env.content)),
          source |-> "ai",
          metadata |-> [kind |-> "metadata", model |-> MODEL_CONFIG.model,
                        finishReason |-> "UNKNOWN"],
          error |-> "null"]

\* The context generateResponse hands to callAI.
AIContext(r) ==
    [intent |-> r.intent, confidence |-> r.confidence, confidenceLevel |-> r.confidenceLevel]

\* The awaited call rejecting: the value thrown, an Error or nothing at all.
Rejections == {[kind |-> "threw", thrown |-> t] : t \in {"Error", "undefined"}}

\* error.message, read by the catch block: a TypeError when nothing was thrown.
HasMessageProperty(thrown) == thrown \notin {"null", "undefined"}

\* generateResponse on success of the call, attaching no metadata.
GenerateFromAIWithoutMetadata(r, ai) ==
    IF ai.kind = "threw"
    THEN IF HasMessageProperty(ai.thrown)
         THEN Package(r, "I'm having trouble processing that right now. Could you try asking in a different way?",
                      "error_fallback", NoMetadata)
         ELSE [threw |-> TRUE, error |-> "TypeError"]
    ELSE IF ai.success
    THEN Package(r, ai.reply, "ai", NoMetadata)
    ELSE Package(r, ai.reply, "ai_error_fallback", ai.metadata)

\* generateResponse treating a reported failure as it treats a rejection.
GenerateFromAIFailureAsRejection(r, ai) ==
    IF ai.kind = "threw"
    THEN IF HasMessageProperty(ai.thrown)
         THEN Package(r, "I'm having trouble processing that right now. Could you try asking in a different way?",
                      "error_fallback", NoMetadata)
         ELSE [threw |-> TRUE, error |-> "TypeError"]
    ELSE IF ai.success
    THEN Package(r, ai.reply, "ai", ai.metadata)
    ELSE Package(r, "I'm having trouble processing that right now. Could you try asking in a different way?",
                 "error_fallback", NoMetadata)

\* generateResponse, strategy ai_fallback, once the awaited call has settled
GenerateFromAI(r, ai) ==
    IF ai.kind = "threw"
    THEN IF HasMessageProperty(ai.thrown)
         THEN Package(r, "I'm having trouble processing that right now. Could you try asking in a different way?",
                      "error_fallback", NoMetadata)
         ELSE [threw |-> TRUE, error |-> "TypeError"]
    ELSE IF ai.success
    THEN Package(r, ai.reply, "ai", ai.metadata)
    ELSE Package(r, ai.reply, "ai_error_fallback", ai.metadata)

\* generateResponse, any other strategy
GenerateUnknownStrategy(r) ==
    Package(r, "I encountered an error processing your message. Please try again.",
            "error", NoMetadata)

\* The catch block of processMessage
ProcessorFallback(error) ==
    [threw |-> FALSE,
     reply |-> "I encountered an issue processing your request. A human agent will assist you shortly.",
     escalated |-> TRUE,
     metadata |-> [error |-> error, responseSource |-> "error_fallback"]]

\* What processMessage returns for the outcome of generateResponse
Resolve(outcome) == IF outcome.threw THEN ProcessorFallback(outcome.error) ELSE outcome

--------------------------------------------------------------------------
(* processMessage: the whole pipeline on one message.  Everything up to    *)
(* the await of callAI runs in one step; the call settles in a second.     *)

MaxResponses == 2

PipelineChars == {"a", "A", SPACE}
PipelineNames == {"greeting", "weather"}

\* No patterns; patterns of which a message can hold one, two or all; and
\* patterns preprocess would change (an upper-case letter, a leading blank).
PipelinePatternLists ==
    {<<>>,
     <<<<"a">>, <<"a", "a">>, <<"a", SPACE, "a">>>>,
     <<<<"a">>, <<"a", "a">>>>,
     <<<<"A">>, <<SPACE, "a">>>>}

KnowledgeBases ==
    KnowledgeBasesOf(IntentRecords(PipelineNames, PipelinePatternLists, 0..MaxResponses)
                       \cup IntentRecordsWithoutResponses(PipelineNames, PipelinePatternLists))

Messages ==
    {Str("string", s) : s \in StringsUpTo(PipelineChars, MaxMsgLen)}
      \cup {Str("number", <<"7">>), Str("bare_object", <<>>)}

\* What the provider does on the calls of the pipeline: no API key, a
\* request that fails, a generated text, a generation of blanks only.
PipelineProviderBehaviours ==
    {Provider("missing", "responds", 200, "other", "content", <<"a">>),
     Provider("configured", "rejects", 200, "other", "content", <<"a">>),
     Provider("configured", "responds", 200, "other", "content", <<"a">>),
     Provider("configured", "responds", 200, "other", "content", <<SPACE>>)}

Init ==
    /\ knowledgeBase \in KnowledgeBases
    /\ SAFE_INTENTS = SafeIntentsAtLoad
    /\ pc = "idle"
    /\ rawMessage = None
    /\ preprocessed = None
    /\ reprocessed = None
    /\ detection = None
    /\ routing = None
    /\ response = None
    /\ NoCollaborator

\* processMessage(message, knowledgeBase) when preprocess throws
ProcessMessageThrows(message) ==
    /\ pc = "idle"
    /\ preprocess(message).threw
    /\ rawMessage' = message
    /\ preprocessed' = preprocess(message)
    /\ response' = ProcessorFallback("TypeError")
    /\ pc' = "done"
    /\ UNCHANGED collaboratorVars
    /\ UNCHANGED <<knowledgeBase, SAFE_INTENTS, reprocessed, detection, routing>>

\* The knowledge base after the response at position index has been taken
\* out of the list of intent k.
WithoutResponse(kb, k, index) ==
    [kb EXCEPT !.intents[k].responses =
        SubSeq(@, 1, index - 1) \o SubSeq(@, index + 1, Len(@))]

\* processMessage with a selectRandomResponse that takes the response it
\* selects out of the intent's list.
ProcessMessageTakingResponse(message, rnd) ==
    /\ pc = "idle"
    /\ ~preprocess(message).threw
    /\ rawMessage' = message
    /\ preprocessed' = preprocess(message)
    /\ detection' = detectIntent(preprocessed'.processed, knowledgeBase)
    /\ routing' = routeIntent(detection', SAFE_INTENTS)
    /\ IF routing'.strategy = "knowledge_base"
       THEN /\ response' = Resolve(GenerateFromKnowledgeBase(routing', knowledgeBase, rnd))
            /\ pc' = "done"
            /\ aiCalls' = aiCalls
            /\ LET k == findIntentInKnowledgeBase(routing'.intent, knowledgeBase)
               IN knowledgeBase' =
                     IF k # 0 /\ HasResponses(knowledgeBase.intents[k])
                     THEN WithoutResponse(knowledgeBase, k,
                              1 + (rnd * Len(knowledgeBase.intents[k].responses)) \div RandomSteps)
                     ELSE knowledgeBase
       ELSE /\ response' = None
            /\ pc' = "awaiting_ai"
            /\ aiCalls' = aiCalls + 1
            /\ knowledgeBase' = knowledgeBase
    /\ UNCHANGED clientVars
    /\ UNCHANGED <<SAFE_INTENTS, reprocessed, aiEnv, aiResult, requests>>

\* processMessage(message, knowledgeBase) up to its first suspension, or to
\* its end when the strategy needs no call of callAI
ProcessMessage(message, rnd) ==
    /\ pc = "idle"
    /\ ~preprocess(message).threw
    /\ rawMessage' = message
    /\ preprocessed' = preprocess(message)
    /\ detection' = detectIntent(preprocessed'.processed, knowledgeBase)
    /\ routing' = routeIntent(detection', SAFE_INTENTS)
    /\ IF routing'.strategy = "knowledge_base"
       THEN /\ response' = Resolve(GenerateFromKnowledgeBase(routing', knowledgeBase, rnd))
            /\ pc' = "done"
            /\ aiCalls' = aiCalls
       ELSE IF routing'.strategy = "ai_fallback"
       THEN /\ response' = None
            /\ pc' = "awaiting_ai"
            /\ aiCalls' = aiCalls + 1
       ELSE /\ response' = Resolve(GenerateUnknownStrategy(routing'))
            /\ pc' = "done"
            /\ aiCalls' = aiCalls
    /\ UNCHANGED clientVars
    /\ UNCHANGED <<knowledgeBase, SAFE_INTENTS, reprocessed, aiEnv, aiResult, requests>>

\* The most calls of callAI a run that called again would be followed for.
MaxCalls == 2

\* The awaited callAI returns; a generateResponse that called again after a
\* reported failure.
AISettlesRetrying(env) ==
    /\ pc = "awaiting_ai"
    /\ aiEnv' = env
    /\ aiResult' = callAI(rawMessage, AIContext(routing), env)
    /\ IF ~aiResult'.success /\ aiCalls < MaxCalls
       THEN /\ response' = None
            /\ pc' = "awaiting_ai"
            /\ aiCalls' = aiCalls + 1
       ELSE /\ response' = Resolve(GenerateFromAI(routing, aiResult'))
            /\ pc' = "done"
            /\ aiCalls' = aiCalls
    /\ UNCHANGED clientVars
    /\ UNCHANGED <<knowledgeBase, SAFE_INTENTS, rawMessage, preprocessed, reprocessed,
                   detection, routing, requests>>

\* The awaited callAI returns and generateResponse suspends once more
\* before it assembles the envelope.
AISettlesSuspendsAgain(env) ==
    /\ pc = "awaiting_ai"
    /\ aiEnv' = env
    /\ aiResult' = callAI(rawMessage, AIContext(routing), env)
    /\ response' = None
    /\ pc' = "awaiting_ai"
    /\ UNCHANGED clientVars
    /\ UNCHANGED <<knowledgeBase, SAFE_INTENTS, rawMessage, preprocessed, reprocessed,
                   detection, routing, aiCalls, requests>>

\* The awaited callAI returns and generateResponse, then processMessage, finish
AISettles(env) ==
    /\ pc = "awaiting_ai"
    /\ aiEnv' = env
    /\ aiResult' = callAI(rawMessage, AIContext(routing), env)
    /\ response' = Resolve(GenerateFromAI(routing, aiResult'))
    /\ pc' = "done"
    /\ UNCHANGED clientVars
    /\ UNCHANGED <<knowledgeBase, SAFE_INTENTS, rawMessage, preprocessed, reprocessed,
                   detection, routing, aiCalls, requests>>

\* The awaited callAI rejects: the catch block of generateResponse runs, and
\* that of processMessage when the first one throws
AIRejects(rejection) ==
    /\ pc = "awaiting_ai"
    /\ aiResult' = rejection
    /\ response' = Resolve(GenerateFromAI(routing, rejection))
    /\ pc' = "done"
    /\ UNCHANGED clientVars
    /\ UNCHANGED <<knowledgeBase, SAFE_INTENTS, rawMessage, preprocessed, reprocessed,
                   detection, routing, aiEnv, aiCalls, requests>>

Next ==
    \/ \E message \in Messages : ProcessMessageThrows(message)
    \/ \E message \in Messages, rnd \in RandomValues : ProcessMessage(message, rnd)
    \/ \E env \in PipelineProviderBehaviours : AISettles(env)
    \/ \E rejection \in Rejections : AIRejects(rejection)

Spec == Init /\ [][Next]_vars


Routed == pc \in {"awaiting_ai", "done"} /\ ~preprocessed.threw

\* C2: a detection result with intent "unknown" is routed to ai_fallback with
\* shouldUseAI = true; a message whose normalized text holds no pattern of
\* any intent is detected as "unknown" with confidence 0 and so routed.
UnknownIntentGoesToAI ==
    Routed =>
        /\ detection.intent = "unknown" =>
              routing.strategy = "ai_fallback" /\ routing.shouldUseAI = TRUE
        /\ ~SomeIntentMatches(preprocessed.processed, knowledgeBase) =>
              /\ detection.intent = "unknown"
              /\ detection.confidence = ConfZero
              /\ routing.strategy = "ai_fallback"

\* C2 witness: two intents with patterns, a non-empty message holding none
\* of them, and the call of callAI pending.
UnknownIntentGoesToAIWitness ==
    /\ pc = "awaiting_ai"
    /\ Len(Intents) = 2
    /\ \A k \in 1..2 : Len(Intents[k].patterns) > 0
    /\ Len(preprocessed.processed) > 0
    /\ ~SomeIntentMatches(preprocessed.processed, knowledgeBase)
    /\ detection.intent = "unknown"
    /\ routing.strategy = "ai_fallback"

ContainsAllPatterns(message, intent) ==
    \A j \in 1..Len(intent.patterns) : includes(message, intent.patterns[j])

ScoresOne(intent) ==
    LET c == detection.allScores.score[intent.intent]
    IN c.d > 0 /\ ConfEq(c, Conf(1, 1))

Range(seq) == {seq[i] : i \in 1..Len(seq)}

\* C10: with strategy knowledge_base and a detected intent that has at least
\* one response, the reply is one of that intent's responses and
\* responseSource is "knowledge_base".
ReplyDrawnFromIntentResponses ==
    (pc = "done" /\ ~preprocessed.threw /\ routing.strategy = "knowledge_base") =>
        \A k \in 1..Len(Intents) :
            (/\ Intents[k].intent = detection.intent
             /\ "responses" \in DOMAIN Intents[k]
             /\ Len(Intents[k].responses) > 0) =>
                /\ response.reply \in Range(Intents[k].responses)
                /\ response.metadata.responseSource = "knowledge_base"

\* C10 witness: the last of several responses drawn, for a safe intent
\* detected with low confidence.
ReplyDrawnFromIntentResponsesWitness ==
    /\ pc = "done"
    /\ ~preprocessed.threw
    /\ routing.strategy = "knowledge_base"
    /\ routing.confidenceLevel = "low"
    /\ \E k \in 1..Len(Intents) :
          /\ Intents[k].intent = detection.intent
          /\ "responses" \in DOMAIN Intents[k]
          /\ Len(Intents[k].responses) = MaxResponses
          /\ response.reply = Intents[k].responses[MaxResponses]


\* C8: normalization is idempotent: preprocess applied to the processed text
\* of an earlier preprocess result returns that same processed text.
NormalizationIdempotent ==
    pc = "reprocessed" =>
        /\ ~reprocessed.threw
        /\ reprocessed.processed = preprocessed.processed

\* C8 witness: a second pass over a text the first pass really changed.
NormalizationIdempotentWitness ==
    /\ pc = "reprocessed"
    /\ rawMessage.kind = "string"
    /\ \E i \in 1..Len(rawMessage.text) : IsUpperCase(rawMessage.text[i])
    /\ \E i \in 1..Len(rawMessage.text) : rawMessage.text[i] = TAB
    /\ Len(preprocessed.processed) = 3
    /\ reprocessed.processed = preprocessed.processed

\* C9: for every input preprocess returns (it never fails, a non-text input
\* is stringified), the processed text has no upper-case letter, no
\* whitespace at either end and only single spaces inside, and original is
\* the input text untouched.
PreprocessNeverFailsAndNormalizes ==
    pc \in {"preprocessed", "threw"} =>
        /\ ~preprocessed.threw
        /\ NoUpperCase(preprocessed.processed)
        /\ SingleSpaced(preprocessed.processed)
        /\ rawMessage.kind = "string" => preprocessed.original = rawMessage.text

--------------------------------------------------------------------------
(* generateResponse and processMessage: the branches of one run *)

\* C11: with strategy knowledge_base and the detected intent found in the
\* knowledge base with an empty or missing responses list, the run completes
\* without throwing and returns the fixed apologetic reply with
\* responseSource "error_fallback".
EmptyResponsesGiveErrorFallback ==
    (pc = "done" /\ ~preprocessed.threw /\ routing.strategy = "knowledge_base") =>
        \A k \in 1..Len(Intents) :
            (/\ Intents[k].intent = detection.intent
             /\ ("responses" \notin DOMAIN Intents[k] \/ Len(Intents[k].responses) = 0)) =>
                /\ "escalated" \notin DOMAIN response
                /\ response.reply = "I understand what you're asking, but I don't have a response prepared for that yet. "
                /\ response.metadata.responseSource = "error_fallback"
                /\ response.intent = detection.intent

\* C11 witness: a safe intent detected, found with a responses list that is
\* there and empty, and the apology returned.
EmptyResponsesGiveErrorFallbackWitness ==
    /\ pc = "done"
    /\ ~preprocessed.threw
    /\ routing.strategy = "knowledge_base"
    /\ \E k \in 1..Len(Intents) :
          /\ Intents[k].intent = detection.intent
          /\ "responses" \in DOMAIN Intents[k]
          /\ Len(Intents[k].responses) = 0
    /\ response.metadata.responseSource = "error_fallback"

AICallReturned == pc = "done" /\ aiResult # None /\ aiResult.kind = "returned"

\* C12: with strategy ai_fallback and a collaborator result with success =
\* true, the envelope's reply is the collaborator's reply, responseSource is
\* "ai" and the collaborator's metadata is attached under metadata.ai.
AISuccessGivesCollaboratorReply ==
    (AICallReturned /\ aiResult.success) =>
        /\ routing.strategy = "ai_fallback"
        /\ response.reply = aiResult.reply
        /\ response.metadata.responseSource = "ai"
        /\ response.metadata.ai = aiResult.metadata

\* C12 witness: a generated text returned for an intent the knowledge base
\* knows, detected with low confidence.
AISuccessGivesCollaboratorReplyWitness ==
    /\ AICallReturned
    /\ aiResult.success
    /\ aiResult.reply = "a"
    /\ detection.intent = "weather"
    /\ response.reply = "a"
    /\ response.metadata.ai.provider = "huggingface"

\* C13: with strategy ai_fallback and a collaborator result with success =
\* false, responseSource is "ai_error_fallback", the reply is the
\* collaborator's own fallback text, never empty, and the collaborator's
\* metadata is attached.
AIFailureGivesCollaboratorFallback ==
    (AICallReturned /\ ~aiResult.success) =>
        /\ routing.strategy = "ai_fallback"
        /\ response.reply = aiResult.reply
        /\ response.reply # ""
        /\ response.metadata.responseSource = "ai_error_fallback"
        /\ response.metadata.ai = aiResult.metadata

\* C13 witness: the request to the provider failed and the envelope carries
\* the text and the metadata of createErrorResponse.
AIFailureGivesCollaboratorFallbackWitness ==
    /\ AICallReturned
    /\ ~aiResult.success
    /\ aiEnv.fetch = "rejects"
    /\ response.reply = "I'm having trouble connecting to my AI brain right now. Please try again."
    /\ response.metadata.ai.finishReason = "ERROR"

\* C14: when the call of the collaborator rejects, with any thrown value,
\* generateResponse does not throw: the run ends with the envelope of the
\* routing result, the hardcoded apology as reply and responseSource
\* "error_fallback".
AIRejectionGivesApology ==
    (pc = "done" /\ aiResult # None /\ aiResult.kind = "threw") =>
        /\ "escalated" \notin DOMAIN response
        /\ response.reply = "I'm having trouble processing that right now. Could you try asking in a different way?"
        /\ response.metadata.responseSource = "error_fallback"

EnvelopeFields ==
    {"reply", "intent", "confidence", "confidenceLevel", "explainability",
     "matchedPatterns", "metadata"}

EnvelopeMetadataFields == {"strategy", "responseSource", "allScores"}

\* C15: for every message and every knowledge base processMessage resolves,
\* and what it resolves to is a ResponseEnvelope: it carries reply, intent,
\* confidence, confidenceLevel, explainability, matchedPatterns and metadata
\* with strategy, responseSource and allScores.
ProcessMessageResolvesToEnvelope ==
    pc = "done" =>
        /\ EnvelopeFields \subseteq DOMAIN response
        /\ EnvelopeMetadataFields \subseteq DOMAIN response.metadata

\* C16: in one run callAI is called exactly once when the routed strategy is
\* ai_fallback and not at all otherwise: never for a safe intent, and never a
\* second time after a reported failure or a rejection.
AICalledOnceOnlyForAIFallback ==
    /\ aiCalls \in {0, 1}
    /\ pc = "idle" => aiCalls = 0
    /\ (pc = "done" /\ preprocessed.threw) => aiCalls = 0
    /\ Routed => aiCalls = (IF routing.strategy = "ai_fallback" THEN 1 ELSE 0)
    /\ (Routed /\ Includes(SAFE_INTENTS, detection.intent)) => aiCalls = 0

\* C16 witness: a run finished after the one call reported a failure.
AICalledOnceOnlyForAIFallbackWitness ==
    /\ AICallReturned
    /\ ~aiResult.success
    /\ aiCalls = 1
    /\ response.metadata.responseSource = "ai_error_fallback"

--------------------------------------------------------------------------
(* callAI called on its own: every behaviour of the provider, with a       *)
(* generated content of up to MaxContentLen characters                     *)

MaxContentLen == 2

AIContents == StringsUpTo(Chars, MaxContentLen)

AIUserMessages ==
    {Str("string", <<"a">>), Str("string", <<SPACE>>), Str("number", <<"7">>)}

AIContexts ==
    {[intent |-> "unknown", confidence |-> ConfZero, confidenceLevel |-> "low"],
     [intent |-> "weather", confidence |-> Conf(1, 3), confidenceLevel |-> "low"]}

InitAI ==
    /\ knowledgeBase = None
    /\ SAFE_INTENTS = SafeIntentsAtLoad
    /\ pc = "idle"
    /\ rawMessage = None
    /\ preprocessed = None
    /\ reprocessed = None
    /\ detection = None
    /\ routing = None
    /\ response = None
    /\ aiEnv \in ProviderBehaviours(AIContents)
    /\ aiResult = None
    /\ aiCalls = 0
    /\ requests = None
    /\ legacyIntent = None
    /\ chat = None

\* callAI(userMessage, context) of the Hugging Face version
CallAI(userMessage, context) ==
    /\ pc = "idle"
    /\ rawMessage' = userMessage
    /\ aiResult' = callAI(userMessage, context, aiEnv)
    /\ aiCalls' = aiCalls + 1
    /\ pc' = "called"
    /\ UNCHANGED clientVars
    /\ UNCHANGED <<knowledgeBase, SAFE_INTENTS, preprocessed, reprocessed, detection,
                   routing, response, aiEnv, requests>>

\* callAI(userMessage, context) of the Gemini version
CallAIGemini(userMessage, context) ==
    /\ pc = "idle"
    /\ rawMessage' = userMessage
    /\ aiResult' = callAIGemini(userMessage, context, aiEnv)
    /\ aiCalls' = aiCalls + 1
    /\ pc' = "called_gemini"
    /\ UNCHANGED clientVars
    /\ UNCHANGED <<knowledgeBase, SAFE_INTENTS, preprocessed, reprocessed, detection,
                   routing, response, aiEnv, requests>>

NextAI ==
    \/ \E userMessage \in AIUserMessages, context \in AIContexts : CallAI(userMessage, context)
    \/ \E userMessage \in AIUserMessages, context \in AIContexts : CallAIGemini(userMessage, context)

SpecAI == InitAI /\ [][NextAI]_vars

\* C17: the collaborator always returns a result with a non-empty reply, on
\* success as on failure: a generation that is empty once trimmed is never
\* reported as success = true.
CollaboratorReplyNeverEmpty ==
    pc \in {"called", "called_gemini"} =>
        /\ aiResult.kind = "returned"
        /\ aiResult.reply # ""
        /\ trim(aiEnv.content) = <<>> => ~aiResult.success

\* The same of the Gemini version alone.
GeminiReplyNeverEmpty ==
    pc = "called_gemini" =>
        /\ aiResult.kind = "returned"
        /\ aiResult.reply # ""
        /\ trim(aiEnv.content) = <<>> => ~aiResult.success

--------------------------------------------------------------------------
(* Several runs of processMessage over one knowledge base, each suspended   *)
(* at its await of callAI while the others begin and finish                 *)

MaxRequests == 2

RequestIds == 1..MaxRequests

ConcurrentKnowledgeBases ==
    KnowledgeBasesOf(IntentRecords(PipelineNames,
                                   {<<<<"a">>, <<"a", "a">>, <<"a", SPACE, "a">>>>},
                                   {MaxResponses}))

ConcurrentMessages ==
    {Str("string", <<"a">>), Str("string", <<"A", "a">>), Str("string", <<SPACE>>),
     Str("bare_object", <<>>)}

ConcurrentProviderBehaviours ==
    {Provider("missing", "responds", 200, "other", "content", <<"a">>),
     Provider("configured", "responds", 200, "other", "content", <<"a">>)}

\* The locals of a run: message, the routing result, the settled call and
\* the value the run resolved to.
Run(at, message, rnd, r, ai, overlapped, resolved) ==
    [pc |-> at, message |-> message, rnd |-> rnd, routing |-> r, aiResult |-> ai,
     overlapped |-> overlapped, response |-> resolved]

NotStarted == Run("idle", None, 0, None, None, FALSE, None)

\* processMessage(message, knowledgeBase) up to its first suspension or its end
Started(message, rnd, kb, safe) ==
    LET p == preprocess(message)
    IN IF p.threw
       THEN Run("done", message, 0, None, None, FALSE, ProcessorFallback("TypeError"))
       ELSE LET r == routeIntent(detectIntent(p.processed, kb), safe)
            IN IF r.strategy = "knowledge_base"
               THEN Run("done", message, rnd, r, None, FALSE,
                        Resolve(GenerateFromKnowledgeBase(r, kb, rnd)))
               ELSE IF r.strategy = "ai_fallback"
               THEN Run("awaiting_ai", message, 0, r, None, FALSE, None)
               ELSE Run("done", message, 0, r, None, FALSE,
                        Resolve(GenerateUnknownStrategy(r)))

\* The routing result of the run that was routed last, were it kept in one
\* place for all runs.
RoutingOfLatestRun(id) == routing

\* The routing result the continuation of a run reads: its own locals.
RoutingSeenBy(id) == requests[id].routing

\* generateResponse and processMessage after the await, for what the call
\* settled to
Finished(id, ai) ==
    Run("done", requests[id].message, requests[id].rnd, requests[id].routing, ai,
        \E other \in RequestIds \ {id} : requests[other].pc = "awaiting_ai",
        Resolve(GenerateFromAI(RoutingSeenBy(id), ai)))

InitConcurrent ==
    /\ knowledgeBase \in ConcurrentKnowledgeBases
    /\ SAFE_INTENTS = SafeIntentsAtLoad
    /\ pc = "serving"
    /\ rawMessage = None
    /\ preprocessed = None
    /\ reprocessed = None
    /\ detection = None
    /\ routing = None
    /\ response = None
    /\ aiEnv = None
    /\ aiResult = None
    /\ aiCalls = 0
    /\ requests = [id \in RequestIds |-> NotStarted]
    /\ legacyIntent = None
    /\ chat = None

\* A run of processMessage begins
Begin(id, message, rnd) ==
    /\ requests[id].pc = "idle"
    /\ requests' = [requests EXCEPT ![id] = Started(message, rnd, knowledgeBase, SAFE_INTENTS)]
    /\ routing' = IF requests'[id].routing = None THEN routing ELSE requests'[id].routing
    /\ UNCHANGED clientVars
    /\ UNCHANGED <<knowledgeBase, SAFE_INTENTS, pc, rawMessage, preprocessed, reprocessed,
                   detection, response, aiEnv, aiResult, aiCalls>>

\* The call of callAI a run awaits returns
Settle(id, env) ==
    /\ requests[id].pc = "awaiting_ai"
    /\ requests' = [requests EXCEPT ![id] =
                       Finished(id, callAI(requests[id].message,
                                           AIContext(RoutingSeenBy(id)), env))]
    /\ UNCHANGED clientVars
    /\ UNCHANGED <<knowledgeBase, SAFE_INTENTS, pc, rawMessage, preprocessed, reprocessed,
                   detection, routing, response, aiEnv, aiResult, aiCalls>>

\* The call of callAI a run awaits rejects
Reject(id, rejection) ==
    /\ requests[id].pc = "awaiting_ai"
    /\ requests' = [requests EXCEPT ![id] = Finished(id, rejection)]
    /\ UNCHANGED clientVars
    /\ UNCHANGED <<knowledgeBase, SAFE_INTENTS, pc, rawMessage, preprocessed, reprocessed,
                   detection, routing, response, aiEnv, aiResult, aiCalls>>

NextConcurrent ==
    \/ \E id \in RequestIds, message \in ConcurrentMessages, rnd \in RandomValues :
          Begin(id, message, rnd)
    \/ \E id \in RequestIds, env \in ConcurrentProviderBehaviours : Settle(id, env)
    \/ \E id \in RequestIds, rejection \in Rejections : Reject(id, rejection)

SpecConcurrent == InitConcurrent /\ [][NextConcurrent]_vars

\* What processMessage resolves to when the run is the only one.
Alone(message, rnd, ai, kb) ==
    LET p == preprocess(message)
    IN IF p.threw
       THEN ProcessorFallback("TypeError")
       ELSE LET r == routeIntent(detectIntent(p.processed, kb), SafeIntentsAtLoad)
            IN IF r.strategy = "knowledge_base"
               THEN Resolve(GenerateFromKnowledgeBase(r, kb, rnd))
               ELSE IF r.strategy = "ai_fallback"
               THEN Resolve(GenerateFromAI(r, ai))
               ELSE Resolve(GenerateUnknownStrategy(r))

\* C18: concurrent runs do not interfere: whatever the order in which the
\* runs begin and their calls of callAI settle, every finished run resolved
\* to what it resolves to alone with the same collaborator result.
ConcurrentRunsDoNotInterfere ==
    \A id \in RequestIds :
        requests[id].pc = "done" =>
            requests[id].response =
                Alone(requests[id].message, requests[id].rnd, requests[id].aiResult,
                      knowledgeBase)

\* C18 witness: a run whose call settled while another run was waiting for
\* its own, the two routed differently, and both finished.
ConcurrentRunsDoNotInterfereWitness ==
    /\ \A id \in RequestIds : requests[id].pc = "done"
    /\ requests[1].overlapped
    /\ requests[1].aiResult # None
    /\ requests[2].aiResult # None
    /\ requests[1].routing # requests[2].routing
    /\ routing = requests[2].routing

--------------------------------------------------------------------------
(* The router's policy over the life of the process *)

\* C19 as stated: the set of safe intents is the same in every reachable
\* state, and routeIntent gives every detection result the strategy it gave
\* it when the module was loaded.
RouterPolicyConstant ==
    /\ SAFE_INTENTS = SafeIntentsAtLoad
    /\ \A d \in RouterDetections :
          routeIntent(d, SAFE_INTENTS).strategy = routeIntent(d, SafeIntentsAtLoad).strategy

NewlySafe(intent) == Includes(SAFE_INTENTS', intent) /\ ~Includes(SAFE_INTENTS, intent)

\* C19 as amended: no operation removes or reorders a safe intent, at most
\* one is appended in a step, and a step changes the strategy of a detection
\* result only for the intent it appended, from ai_fallback to
\* knowledge_base.
SafeIntentsOnlyGrow ==
    [][/\ Len(SAFE_INTENTS') \in {Len(SAFE_INTENTS), Len(SAFE_INTENTS) + 1}
       /\ SubSeq(SAFE_INTENTS', 1, Len(SAFE_INTENTS)) = SAFE_INTENTS
       /\ \A d \in RouterDetections :
             \/ routeIntent(d, SAFE_INTENTS').strategy = routeIntent(d, SAFE_INTENTS).strategy
             \/ /\ NewlySafe(d.intent)
                /\ routeIntent(d, SAFE_INTENTS).strategy = "ai_fallback"
                /\ routeIntent(d, SAFE_INTENTS').strategy = "knowledge_base"]_vars

\* C19 witness: an intent added to the safe set and then routed to the
\* knowledge base with a confidence under the medium threshold.
SafeIntentsOnlyGrowWitness ==
    /\ pc = "routed"
    /\ SAFE_INTENTS # SafeIntentsAtLoad
    /\ ~Includes(SafeIntentsAtLoad, detection.intent)
    /\ ConfGt(Conf(4, 10), detection.confidence)
    /\ routing.strategy = "knowledge_base"
    /\ routeIntent(detection, SafeIntentsAtLoad).strategy = "ai_fallback"

\* C20: confidenceLevel is a function of the confidence alone: "high" from
\* 0.7 up, "medium" from 0.4 up to 0.7, "low" under 0.4; and for a safe
\* intent the strategy is the same whatever the level.
ConfidenceLevelByThresholds ==
    pc = "routed" =>
        /\ routing.confidenceLevel =
              (IF 10 * detection.confidence.n >= 7 * detection.confidence.d THEN "high"
               ELSE IF 10 * detection.confidence.n >= 4 * detection.confidence.d THEN "medium"
               ELSE "low")
        /\ (Includes(SAFE_INTENTS, detection.intent) /\ ~IsUnknownIntent(detection.intent)) =>
              \A c \in RouterConfidences :
                  routeIntent([detection EXCEPT !.confidence = c], SAFE_INTENTS).strategy
                      = routing.strategy

\* C20 witness: a safe intent with a confidence of exactly 0.7.
ConfidenceLevelByThresholdsWitness ==
    /\ pc = "routed"
    /\ Includes(SAFE_INTENTS, detection.intent)
    /\ ConfEq(detection.confidence, Conf(7, 10))
    /\ routing.confidenceLevel = "high"
    /\ routing.strategy = "knowledge_base"

--------------------------------------------------------------------------
(* The envelope: what assembly keeps of the detection and what it says *)

\* generateResponse returned an envelope to processMessage.
EnvelopeReturned == pc = "done" /\ ~preprocessed.threw /\ "escalated" \notin DOMAIN response

\* C21: the envelope generateResponse returns holds in metadata.allScores
\* one confidence per intent of the knowledge base, and its intent,
\* confidence, matchedPatterns and allScores are those of the detection
\* result on every branch.
EnvelopeKeepsDetection ==
    EnvelopeReturned =>
        /\ response.intent = detection.intent
        /\ response.confidence = detection.confidence
        /\ response.matchedPatterns = detection.matchedPatterns
        /\ response.metadata.allScores = detection.allScores
        /\ DOMAIN response.metadata.allScores.score =
              {Intents[k].intent : k \in 1..Len(Intents)}
        /\ Len(response.metadata.allScores.keys) = Len(Intents)

\* C21 witness: the envelope of the exception branch, with the scores of
\* two intents of which one matched.
EnvelopeKeepsDetectionWitness ==
    /\ EnvelopeReturned
    /\ aiResult # None
    /\ aiResult.kind = "threw"
    /\ Len(Intents) = 2
    /\ detection.intent # "unknown"
    /\ Len(response.matchedPatterns) > 0
    /\ Len(response.metadata.allScores.keys) = 2

\* String.prototype.includes on the text of a message
Contains(text, clause) ==
    \E i \in 0..(Len(text) - Len(clause)) : SubSeq(text, i + 1, i + Len(clause)) = clause

ResponseSources == {"knowledge_base", "ai", "ai_error_fallback", "error_fallback"}

\* The clause the explainability message ends with for each response source.
ClauseOf(responseSource) ==
    CASE responseSource = "knowledge_base" -> "Using rule-based response from knowledge base."
      [] responseSource = "ai" -> "Using AI-generated response"
      [] responseSource = "ai_error_fallback" -> "AI service unavailable - using fallback response."
      [] responseSource = "error_fallback" -> "Using fallback response due to error."
      [] OTHER -> "Response source: " \o responseSource

\* C22: the explainability string is never empty; it says that no specific
\* intent was detected exactly when the intent is "unknown", holds the
\* safe-intent note exactly when the intent is safe and the level "low", and
\* holds the clause of the actual responseSource and of no other.
ExplainabilityTellsTheBranch ==
    EnvelopeReturned =>
        /\ response.explainability # ""
        /\ Contains(response.explainability, "No specific intent detected")
              <=> response.intent = "unknown"
        /\ Contains(response.explainability, "Detected intent '" \o response.intent \o "'")
              <=> response.intent # "unknown"
        /\ Contains(response.explainability, "safe intent, answered with rules regardless of low confidence")
              <=> (Includes(SAFE_INTENTS, response.intent) /\ response.confidenceLevel = "low")
        /\ \A source \in ResponseSources :
              Contains(response.explainability, ClauseOf(source))
                  <=> source = response.metadata.responseSource

\* C22 witness: a safe intent answered with the apology for want of
\* responses, detected with low confidence.
ExplainabilityTellsTheBranchWitness ==
    /\ EnvelopeReturned
    /\ routing.strategy = "knowledge_base"
    /\ response.metadata.responseSource = "error_fallback"
    /\ response.confidenceLevel = "low"
    /\ Contains(response.explainability, "safe intent, answered with rules")
    /\ Contains(response.explainability, "Using fallback response due to error.")

\* C26: every decision of routeIntent has strategy knowledge_base or
\* ai_fallback, so no run ends with responseSource "error": a
\* knowledge_base decision ends in knowledge_base or error_fallback, an
\* ai_fallback decision in ai, ai_error_fallback or error_fallback.
UnknownStrategyUnreachable ==
    /\ Routed => routing.strategy \in {"knowledge_base", "ai_fallback"}
    /\ (pc = "done" /\ ~preprocessed.threw) =>
          /\ response.metadata.responseSource # "error"
          /\ routing.strategy = "knowledge_base" =>
                response.metadata.responseSource \in {"knowledge_base", "error_fallback"}
          /\ routing.strategy = "ai_fallback" =>
                response.metadata.responseSource \in {"ai", "ai_error_fallback", "error_fallback"}

\* C26 witness: an intent of the knowledge base under the medium threshold,
\* sent to the AI, whose call rejected with an Error.
UnknownStrategyUnreachableWitness ==
    /\ EnvelopeReturned
    /\ routing.strategy = "ai_fallback"
    /\ routing.routingExplanation = "low"
    /\ response.metadata.responseSource = "error_fallback"

\* C24: no step of the pipeline changes the knowledge base: the list of
\* intents and every intent's name, patterns and responses stay as loaded.
KnowledgeBaseNeverModified == [][knowledgeBase' = knowledgeBase]_vars

\* C24 witness: a reply drawn from one of two intents that have responses.
KnowledgeBaseNeverModifiedWitness ==
    /\ EnvelopeReturned
    /\ Len(Intents) = 2
    /\ \A k \in 1..2 : "responses" \in DOMAIN Intents[k] /\ Len(Intents[k].responses) = MaxResponses
    /\ response.metadata.responseSource = "knowledge_base"
    /\ response.reply = Intents[2].responses[1]

--------------------------------------------------------------------------
(* The pipeline with a collaborator that settles: a pending call of callAI  *)
(* eventually returns or rejects                                            *)

FairKnowledgeBases ==
    KnowledgeBasesOf(IntentRecords(PipelineNames,
                                   {<<<<"a">>, <<"a", "a">>, <<"a", SPACE, "a">>>>},
                                   {0, MaxResponses}))

InitFair ==
    /\ knowledgeBase \in FairKnowledgeBases
    /\ SAFE_INTENTS = SafeIntentsAtLoad
    /\ pc = "idle"
    /\ rawMessage = None
    /\ preprocessed = None
    /\ reprocessed = None
    /\ detection = None
    /\ routing = None
    /\ response = None
    /\ NoCollaborator

CallSettles ==
    \/ \E env \in PipelineProviderBehaviours : AISettles(env)
    \/ \E rejection \in Rejections : AIRejects(rejection)

SpecFair == InitFair /\ [][Next]_vars /\ WF_vars(CallSettles)

\* C23: a run suspends only at the call of callAI of the ai_fallback branch:
\* a run routed to knowledge_base is finished in the step that began it, a
\* run routed to ai_fallback is finished in the step in which the call
\* returns or rejects, and so every run that began finishes.
EveryRunFinishes ==
    /\ [][/\ pc = "idle" =>
               \/ pc' = "done"
               \/ pc' = "awaiting_ai" /\ routing'.strategy = "ai_fallback"
          /\ pc = "awaiting_ai" => pc' = "done" /\ response' # None]_vars
    /\ (pc = "awaiting_ai") ~> (pc = "done")

\* C23 witness: a run that waited for the call, which then rejected.
EveryRunFinishesWitness ==
    /\ pc = "done"
    /\ aiCalls = 1
    /\ aiResult # None
    /\ aiResult.kind = "threw"
    /\ response # None

--------------------------------------------------------------------------
(* The flags of a routing decision *)

--------------------------------------------------------------------------
(* The detector's result, and the legacy detector beside it *)

Detected == pc \in {"detected", "compared"}

\* The pattern occurs in the text at some position, character by character.
OccursIn(text, pattern) ==
    \E start \in 1..(Len(text) + 1) :
        /\ start + Len(pattern) - 1 <= Len(text)
        /\ \A j \in 1..Len(pattern) : text[start + j - 1] = pattern[j]

\* C25: matchedPatterns of the detected intent is the list of that intent's
\* patterns that occur as substrings of the text, in pattern order and with
\* no word-boundary requirement, and the confidence is the length of
\* matchedPatterns over the number of the intent's patterns.
MatchedPatternsAreSubstrings ==
    (Detected /\ detection.intent # "unknown") =>
        \A k \in 1..Len(Intents) :
            Intents[k].intent = detection.intent =>
                /\ detection.matchedPatterns =
                      SelectSeq(Intents[k].patterns, LAMBDA p : OccursIn(rawMessage.text, p))
                /\ detection.confidence.d = Len(Intents[k].patterns)
                /\ detection.confidence.d > 0
                /\ detection.confidence.n = Len(detection.matchedPatterns)

\* C25 witness: of two patterns the one matched occurs inside the text and
\* not at its start.
MatchedPatternsAreSubstringsWitness ==
    /\ Detected
    /\ detection.intent # "unknown"
    /\ Len(detection.matchedPatterns) = 1
    /\ detection.confidence = Conf(1, 2)
    /\ SubSeq(rawMessage.text, 1, Len(detection.matchedPatterns[1])) # detection.matchedPatterns[1]

--------------------------------------------------------------------------
(* Chatbot.jsx: the chat window.  Every state update is rendered before     *)
(* the next event is handled, so a handler sees the messages and the input  *)
(* of the state; a reply that is pending keeps the messages.length of the   *)
(* render in which it was sent.                                             *)

MaxSends == 3

ChatInputs == {<<"a">>, <<"b">>, <<SPACE>>}

ChatMessage(id, sender, text) == [id |-> id, sender |-> sender, text |-> text]

\* useState: the greeting of the bot and an empty input
InitialChat(version) ==
    [version |-> version,
     messages |-> <<ChatMessage(1, "bot", "Hello!  How can I help you today?")>>,
     inputValue |-> <<>>,
     pending |-> {},
     sends |-> 0,
     added |-> {}]

InitChat ==
    /\ knowledgeBase = None
    /\ SAFE_INTENTS = SafeIntentsAtLoad
    /\ pc = "rendered"
    /\ rawMessage = None
    /\ preprocessed = None
    /\ reprocessed = None
    /\ detection = None
    /\ routing = None
    /\ response = None
    /\ aiEnv = None
    /\ aiResult = None
    /\ aiCalls = 0
    /\ requests = None
    /\ legacyIntent = None
    /\ chat \in {InitialChat(version) : version \in {"fetch", "timer"}}

\* onChange of the input: setInputValue(e.target.value)
ChangeInput(text) ==
    /\ chat.inputValue # text
    /\ chat' = [chat EXCEPT !.inputValue = text]
    /\ UNCHANGED <<knowledgeBase, SAFE_INTENTS, pc, rawMessage, preprocessed, reprocessed,
                   detection, routing, response, aiEnv, aiResult, aiCalls, requests,
                   legacyIntent>>

\* handleSend up to its await of fetch, or to its end once the timer is set
HandleSend ==
    /\ chat.sends < MaxSends
    /\ trim(chat.inputValue) # <<>>
    /\ LET userMessage == ChatMessage(Len(chat.messages) + 1, "user", Text(chat.inputValue))
       IN chat' = [chat EXCEPT
                      !.messages = Append(chat.messages, userMessage),
                      !.inputValue = <<>>,
                      !.pending = @ \cup {[send |-> chat.sends + 1,
                                           length |-> Len(chat.messages)]},
                      !.sends = @ + 1,
                      !.added = @ \cup {userMessage}]
    /\ UNCHANGED <<knowledgeBase, SAFE_INTENTS, pc, rawMessage, preprocessed, reprocessed,
                   detection, routing, response, aiEnv, aiResult, aiCalls, requests,
                   legacyIntent>>

\* The text of the bot message for how the request ended.
BotText(version, outcome) ==
    IF version = "timer" THEN "Thanks for your message! This is a simulated response."
    ELSE IF outcome = "replied" THEN "data.reply"
    ELSE "Sorry, I could not connect to the server. Please try again!"

\* The rest of handleSend: fetch settled, or the timer fired
ReplyArrives(p, outcome) ==
    /\ p \in chat.pending
    /\ chat.version = "timer" => outcome = "replied"
    /\ LET botMessage == ChatMessage(p.length + 2, "bot", BotText(chat.version, outcome))
       IN chat' = [chat EXCEPT
                      !.messages = Append(chat.messages, botMessage),
                      !.pending = @ \ {p},
                      !.added = @ \cup {botMessage}]
    /\ UNCHANGED <<knowledgeBase, SAFE_INTENTS, pc, rawMessage, preprocessed, reprocessed,
                   detection, routing, response, aiEnv, aiResult, aiCalls, requests,
                   legacyIntent>>

NextChat ==
    \/ \E text \in ChatInputs : ChangeInput(text)
    \/ HandleSend
    \/ \E p \in chat.pending, outcome \in {"replied", "failed"} : ReplyArrives(p, outcome)

SpecChat == InitChat /\ [][NextChat]_vars

\* C30: after any interleaving of sends and replies, a second send while a
\* reply is pending included, all messages of the list have distinct ids
\* and every message that was added is in the list.
ChatMessageIdsDistinct ==
    /\ \A i, j \in 1..Len(chat.messages) :
          i # j => chat.messages[i].id # chat.messages[j].id
    /\ \A m \in chat.added : \E i \in 1..Len(chat.messages) : chat.messages[i] = m

\* The second half alone: no message that was added is missing.
ChatMessagesNeverLost ==
    /\ Len(chat.messages) = 1 + chat.sends + (chat.sends - Cardinality(chat.pending))
    /\ \A m \in chat.added : \E i \in 1..Len(chat.messages) : chat.messages[i] = m

====
